---------------------------- MODULE Spec2Model ----------------------------
(***************************************************************************)
(* Identity-stable history resolver of the flash-card deck loader.         *)
(*                                                                         *)
(*   change_router.rs    determine_changes   two-version diff classifier   *)
(*   change_resolver.rs  resolve_changes     fold of one diff over the     *)
(*                                           identified-note substrate     *)
(*   uuid_generator.rs   create_host_uuid, generate_note_uuid              *)
(*   types/deck/methods.rs  process_card_history, process_cycle,           *)
(*                          initialize_cards, generate_note_uuids          *)
(*                                                                         *)
(* Strings are sequences of character codes (ASCII), so that formatting,   *)
(* concatenation and the derived lexicographic orders are computed rather  *)
(* than assumed.  Indices carried inside Transforms are the 0-based        *)
(* indices of the Rust code; TLA+ sequences are 1-based, so every access   *)
(* adds one.                                                               *)
(***************************************************************************)
EXTENDS Integers, Sequences, FiniteSets, Bags, TLC

(***************************************************************************)
(* Bounds of the model.                                                    *)
(***************************************************************************)
\* longest revision (number of notes) drawn as an input
MaxLen == 3
\* number of revisions in a walked history
MaxRevs == 3
\* longest hand-built Additions / Deletions / Modifications list
MaxList == 2
\* number of classify-and-resolve steps of the fixed-host fold
MaxSteps == 3
\* commits of a repository
MaxCommits == 3
\* lines of a parsed content
MaxLines == 4
\* top-level calls made on one import expander
MaxCalls == 2
\* content elements on a field line
MaxElements == 4

(***************************************************************************)
(* Character strings.                                                      *)
(***************************************************************************)
NUL == <<0>>
Str_a == <<97>>
Str_b == <<98>>
Str_c == <<99>>
Str_t == <<116>>
Str_Front == <<70>>
Str_Basic == <<66>>

RECURSIVE CmpStr(_, _)
\* Ord for String: lexicographic over the bytes; -1, 0 or 1
CmpStr(s, t) ==
    IF s = <<>> THEN (IF t = <<>> THEN 0 ELSE -1)
    ELSE IF t = <<>> THEN 1
    ELSE IF Head(s) < Head(t) THEN -1
    ELSE IF Head(s) > Head(t) THEN 1
    ELSE CmpStr(Tail(s), Tail(t))

RECURSIVE CmpStrSeq(_, _)
\* Ord for Vec<String> and Option<String> (None = <<>>, Some(s) = <<s>>)
CmpStrSeq(s, t) ==
    IF s = <<>> THEN (IF t = <<>> THEN 0 ELSE -1)
    ELSE IF t = <<>> THEN 1
    ELSE LET c == CmpStr(Head(s), Head(t))
         IN  IF c # 0 THEN c ELSE CmpStrSeq(Tail(s), Tail(t))

(***************************************************************************)
(* Notes (types/note.rs).                                                  *)
(***************************************************************************)
\* TextElement::Text(s)
Text(s) == [kind |-> "Text", id |-> 0, text |-> s, hint |-> <<>>]

\* TextElement::Cloze(Cloze { id, answer, hint })
ClozeEl(id, answer, hint) == [kind |-> "Cloze", id |-> id, text |-> answer, hint |-> hint]

\* NoteField { name, content }
NoteField(name, content) == [name |-> name, content |-> content]

\* Note { fields, model, tags }; the model is carried by its name
Note(fields, model, tags) == [fields |-> fields, model |-> model, tags |-> tags]

\* derived Ord of TextElement: variant order Text < Cloze, then the payload
CmpTextElement(x, y) ==
    IF x.kind # y.kind THEN (IF x.kind = "Text" THEN -1 ELSE 1)
    ELSE IF x.kind = "Text" THEN CmpStr(x.text, y.text)
    ELSE IF x.id < y.id THEN -1
    ELSE IF x.id > y.id THEN 1
    ELSE LET c == CmpStr(x.text, y.text)
         IN  IF c # 0 THEN c ELSE CmpStrSeq(x.hint, y.hint)

RECURSIVE CmpContent(_, _)
\* Ord of Vec<TextElement>
CmpContent(s, t) ==
    IF s = <<>> THEN (IF t = <<>> THEN 0 ELSE -1)
    ELSE IF t = <<>> THEN 1
    ELSE LET c == CmpTextElement(Head(s), Head(t))
         IN  IF c # 0 THEN c ELSE CmpContent(Tail(s), Tail(t))

\* derived Ord of NoteField: name, then content
CmpNoteField(x, y) ==
    LET c == CmpStr(x.name, y.name)
    IN  IF c # 0 THEN c ELSE CmpContent(x.content, y.content)

RECURSIVE CmpFields(_, _)
\* Ord of Vec<NoteField>
CmpFields(s, t) ==
    IF s = <<>> THEN (IF t = <<>> THEN 0 ELSE -1)
    ELSE IF t = <<>> THEN 1
    ELSE LET c == CmpNoteField(Head(s), Head(t))
         IN  IF c # 0 THEN c ELSE CmpFields(Tail(s), Tail(t))

\* derived Ord of Note: fields, then model, then tags
CmpNote(x, y) ==
    LET c == CmpFields(x.fields, y.fields)
    IN  IF c # 0 THEN c
        ELSE LET m == CmpStr(x.model, y.model)
             IN  IF m # 0 THEN m ELSE CmpStrSeq(x.tags, y.tags)

RECURSIVE JoinNul(_)
\* NUL-separated concatenation of the elements' textual projections
\* (Text(s) projects to s, Cloze to its answer)
JoinNul(content) ==
    IF content = <<>> THEN <<>>
    ELSE IF Len(content) = 1 THEN Head(content).text
    ELSE Head(content).text \o NUL \o JoinNul(Tail(content))

RECURSIVE ContentOfFields(_)
ContentOfFields(fields) ==
    IF fields = <<>> THEN <<>>
    ELSE Head(fields).name \o JoinNul(Head(fields).content)
         \o ContentOfFields(Tail(fields))

\* Identifiable::to_content_string
ToContentString(note) == ContentOfFields(note.fields)

\* Identifiable::identified
Identified(id, inner) == [id |-> id, inner |-> inner]

(***************************************************************************)
(* Identifiers (uuid_generator.rs).  A version-5 UUID is a hash of the     *)
(* namespace and the name; it is modelled as the injective encoding        *)
(* <<|ns|>> \o ns \o name (no two inputs collide).                         *)
(***************************************************************************)
\* Uuid::default(), the nil UUID
NilUuid == <<0>>

\* Uuid::NAMESPACE_DNS
NamespaceDns == <<1>>

\* Uuid::new_v5(namespace, name)
NewV5(namespace, name) == <<Len(namespace)>> \o namespace \o name

RECURSIVE Decimal(_)
Decimal(n) == IF n < 10 THEN <<48 + n>> ELSE Decimal(n \div 10) \o <<48 + (n % 10)>>

\* Display of an i64
FormatI64(n) == IF n < 0 THEN <<45>> \o Decimal(0 - n) ELSE Decimal(n)

\* create_host_uuid: v5(DNS, format!("{}{}", author, time))
CreateHostUuid(author, time) == NewV5(NamespaceDns, author \o FormatI64(time))

\* generate_note_uuid: v5(host_uuid, content)
GenerateNoteUuid(host_uuid, content) == NewV5(host_uuid, content)

(***************************************************************************)
(* Change classifier (change_router.rs).                                   *)
(***************************************************************************)
\* enum Transforms, and None for Ok(None)
NoChange == [kind |-> "None", list |-> <<>>, pairs |-> {}]
Additions(list) == [kind |-> "Additions", list |-> list, pairs |-> {}]
Deletions(list) == [kind |-> "Deletions", list |-> list, pairs |-> {}]
Modifications(list) == [kind |-> "Modifications", list |-> list, pairs |-> {}]
Reorders(pairs) == [kind |-> "Reorders", list |-> <<>>, pairs |-> pairs]

RECURSIVE AdditionsWalk(_, _, _, _, _)
\* the two-cursor walk of the grown deck; cursors are 0-based
AdditionsWalk(deck_1, deck_2, deck_1_idx, deck_2_idx, additions) ==
    IF ~(deck_2_idx < Len(deck_2)) THEN additions
    ELSE IF deck_1_idx < Len(deck_1) /\ deck_1[deck_1_idx + 1] = deck_2[deck_2_idx + 1]
         THEN AdditionsWalk(deck_1, deck_2, deck_1_idx + 1, deck_2_idx + 1, additions)
         ELSE AdditionsWalk(deck_1, deck_2, deck_1_idx, deck_2_idx + 1,
                            Append(additions, <<deck_2_idx, deck_2[deck_2_idx + 1]>>))

RECURSIVE DeletionsWalkNewCursor(_, _, _, _, _)
\* DeletionsWalk recording the cursor of the shrunk deck instead of the
\* cursor of the old deck
DeletionsWalkNewCursor(deck_1, deck_2, deck_1_idx, deck_2_idx, deletions) ==
    IF ~(deck_1_idx < Len(deck_1)) THEN deletions
    ELSE IF deck_2_idx < Len(deck_2) /\ deck_1[deck_1_idx + 1] = deck_2[deck_2_idx + 1]
         THEN DeletionsWalkNewCursor(deck_1, deck_2, deck_1_idx + 1, deck_2_idx + 1, deletions)
         ELSE DeletionsWalkNewCursor(deck_1, deck_2, deck_1_idx + 1, deck_2_idx,
                                     Append(deletions, deck_2_idx))

RECURSIVE DeletionsWalk(_, _, _, _, _)
\* the two-cursor walk of the shrunk deck; deletions in increasing order
DeletionsWalk(deck_1, deck_2, deck_1_idx, deck_2_idx, deletions) ==
    IF ~(deck_1_idx < Len(deck_1)) THEN deletions
    ELSE IF deck_2_idx < Len(deck_2) /\ deck_1[deck_1_idx + 1] = deck_2[deck_2_idx + 1]
         THEN DeletionsWalk(deck_1, deck_2, deck_1_idx + 1, deck_2_idx + 1, deletions)
         ELSE DeletionsWalk(deck_1, deck_2, deck_1_idx + 1, deck_2_idx,
                            Append(deletions, deck_1_idx))

\* Vec::reverse
Reverse(s) == [i \in 1..Len(s) |-> s[Len(s) + 1 - i]]

RECURSIVE InsertSorted(_, _)
InsertSorted(sorted, note) ==
    IF sorted = <<>> THEN <<note>>
    ELSE IF CmpNote(note, Head(sorted)) < 0 THEN <<note>> \o sorted
    ELSE <<Head(sorted)>> \o InsertSorted(Tail(sorted), note)

RECURSIVE SortNotes(_)
\* slice::sort under the derived Ord of Note
SortNotes(deck) ==
    IF deck = <<>> THEN <<>>
    ELSE InsertSorted(SortNotes(Tail(deck)), Head(deck))

\* SameSorted with the sorted copies deduplicated before the comparison
SameSortedDedup(deck_1, deck_2) ==
    {deck_1[i] : i \in 1..Len(deck_1)} = {deck_2[i] : i \in 1..Len(deck_2)}

\* sorted_1 == sorted_2
SameSorted(deck_1, deck_2) == SortNotes(deck_1) = SortNotes(deck_2)

\* Iterator::position: the first 0-based index holding card, -1 for None
Position(deck, card) ==
    IF \E i \in 1..Len(deck) : deck[i] = card
    THEN (CHOOSE i \in 1..Len(deck) :
              deck[i] = card /\ \A j \in 1..(i - 1) : deck[j] # card) - 1
    ELSE -1

\* the normalised pair inserted into the reorderings set
SwapPair(idx1, idx2) == IF idx1 < idx2 THEN <<idx1, idx2>> ELSE <<idx2, idx1>>

\* the loop building the HashSet of reorderings
FindReorders(deck_1, deck_2) ==
    { SwapPair(i - 1, Position(deck_2, deck_1[i])) :
        i \in { k \in 1..Len(deck_1) :
                  deck_1[k] # deck_2[k] /\ Position(deck_2, deck_1[k]) # -1 } }

RECURSIVE ModificationsWalk(_, _, _, _)
ModificationsWalk(deck_1, deck_2, index, modifications) ==
    IF ~(index < Len(deck_1) /\ index < Len(deck_2)) THEN modifications
    ELSE IF deck_1[index + 1] # deck_2[index + 1]
         THEN ModificationsWalk(deck_1, deck_2, index + 1,
                                Append(modifications, <<index, deck_2[index + 1]>>))
         ELSE ModificationsWalk(deck_1, deck_2, index + 1, modifications)

\* the positions whose content changed
FindModifications(deck_1, deck_2) == ModificationsWalk(deck_1, deck_2, 0, <<>>)

\* FindAdditions recording 1-based indices
FindAdditionsOneBased(deck_1, deck_2) ==
    LET found == AdditionsWalk(deck_1, deck_2, 0, 0, <<>>)
    IN  [k \in 1..Len(found) |-> <<found[k][1] + 1, found[k][2]>>]

\* the additions found for a grown deck
FindAdditions(deck_1, deck_2) == AdditionsWalk(deck_1, deck_2, 0, 0, <<>>)

\* FindDeletions without the reversal
FindDeletionsForward(deck_1, deck_2) == DeletionsWalk(deck_1, deck_2, 0, 0, <<>>)

\* the deletions found for a shrunk deck, reversed
FindDeletions(deck_1, deck_2) == Reverse(DeletionsWalk(deck_1, deck_2, 0, 0, <<>>))

\* determine_changes(deck_1, deck_2)
DetermineChanges(deck_1, deck_2) ==
    IF deck_1 = deck_2 THEN NoChange
    ELSE IF Len(deck_1) # Len(deck_2)
         THEN IF Len(deck_2) > Len(deck_1)
              THEN Additions(FindAdditions(deck_1, deck_2))
              ELSE Deletions(FindDeletions(deck_1, deck_2))
         ELSE IF SameSorted(deck_1, deck_2)
              THEN Reorders(FindReorders(deck_1, deck_2))
              ELSE Modifications(FindModifications(deck_1, deck_2))

(***************************************************************************)
(* History resolver (change_resolver.rs).  A call either returns with the  *)
(* substrate mutated or panics on an index out of bounds (Vec::insert,     *)
(* Vec::remove, indexing and swap all check their index).                  *)
(***************************************************************************)
Returned(cards) == [ok |-> TRUE, cards |-> cards]
Panicked == [ok |-> FALSE, cards |-> <<>>]

\* InsertAt overwriting the entry at idx instead of shifting it
InsertAtOverwriting(cards, idx, entry) ==
    SubSeq(cards, 1, idx) \o <<entry>> \o SubSeq(cards, idx + 2, Len(cards))

\* Vec::insert(idx, entry), idx <= len
InsertAt(cards, idx, entry) ==
    SubSeq(cards, 1, idx) \o <<entry>> \o SubSeq(cards, idx + 1, Len(cards))

\* Vec::remove(idx), idx < len
RemoveAt(cards, idx) == SubSeq(cards, 1, idx) \o SubSeq(cards, idx + 2, Len(cards))

\* slice::swap(from, to), both < len
SwapAt(cards, from, to) ==
    [i \in 1..Len(cards) |->
        IF i = from + 1 THEN cards[to + 1]
        ELSE IF i = to + 1 THEN cards[from + 1]
        ELSE cards[i]]

\* AddedEntry hashing the tags along with the content string
AddedEntryTagged(new_note, host_uuid) ==
    Identified(GenerateNoteUuid(host_uuid, ToContentString(new_note) \o <<Len(new_note.tags)>>),
               new_note)

\* the entry an addition inserts: a fresh id from the host uuid and the
\* note's content string, and an owned copy of the note
AddedEntry(new_note, host_uuid) ==
    Identified(GenerateNoteUuid(host_uuid, ToContentString(new_note)), new_note)

\* ModifiedEntry as the earlier resolver (uuid_resolver.rs) wrote it: the id
\* is reset to Uuid::default()
ModifiedEntryDefaultId(existing, modified_note) == Identified(NilUuid, modified_note)

\* the entry a modification writes: the existing id and the new note
ModifiedEntry(existing, modified_note) == Identified(existing.id, modified_note)

RECURSIVE ApplyAdditions(_, _, _)
ApplyAdditions(additions, substrate, host_uuid) ==
    IF additions = <<>> THEN Returned(substrate)
    ELSE LET idx == Head(additions)[1]
             new_note == Head(additions)[2]
         IN  IF idx > Len(substrate) THEN Panicked
             ELSE ApplyAdditions(Tail(additions),
                                 InsertAt(substrate, idx, AddedEntry(new_note, host_uuid)),
                                 host_uuid)

RECURSIVE ApplyDeletions(_, _)
ApplyDeletions(deletions, substrate) ==
    IF deletions = <<>> THEN Returned(substrate)
    ELSE LET idx == Head(deletions)
         IN  IF idx >= Len(substrate) THEN Panicked
             ELSE ApplyDeletions(Tail(deletions), RemoveAt(substrate, idx))

RECURSIVE ApplyModifications(_, _)
ApplyModifications(modifications, substrate) ==
    IF modifications = <<>> THEN Returned(substrate)
    ELSE LET idx == Head(modifications)[1]
             modified_note == Head(modifications)[2]
         IN  IF idx >= Len(substrate) THEN Panicked
             ELSE ApplyModifications(Tail(modifications),
                      [substrate EXCEPT ![idx + 1] = ModifiedEntry(@, modified_note)])

RECURSIVE ApplyReorders(_, _)
\* the swaps are applied in the iteration order of a HashSet, which the
\* hasher's per-process random keys decide: every order is an outcome
ApplyReorders(mappings, substrate) ==
    IF mappings = {} THEN {Returned(substrate)}
    ELSE UNION { IF m[1] >= Len(substrate) \/ m[2] >= Len(substrate)
                 THEN {Panicked}
                 ELSE ApplyReorders(mappings \ {m}, SwapAt(substrate, m[1], m[2]))
               : m \in mappings }

\* resolve_changes(transformations, substrate, host_uuid): the set of
\* results the call can have
ResolveChanges(transformations, substrate, host_uuid) ==
    CASE transformations.kind = "Additions" ->
             {ApplyAdditions(transformations.list, substrate, host_uuid)}
      [] transformations.kind = "Deletions" ->
             {ApplyDeletions(transformations.list, substrate)}
      [] transformations.kind = "Modifications" ->
             {ApplyModifications(transformations.list, substrate)}
      [] transformations.kind = "Reorders" ->
             ApplyReorders(transformations.pairs, substrate)

(***************************************************************************)
(* Orchestrator (types/deck/methods.rs).                                   *)
(***************************************************************************)
\* generate_note_uuids: the host uuid of the commit, then one id per note
GenerateNoteUuids(notes, commit) ==
    LET host_uuid == CreateHostUuid(commit.author, commit.time)
    IN  [i \in 1..Len(notes) |-> GenerateNoteUuid(host_uuid, ToContentString(notes[i]))]

\* initialize_cards: cards zipped with the generated uuids
InitializeCards(cards, uuids) ==
    LET n == IF Len(cards) < Len(uuids) THEN Len(cards) ELSE Len(uuids)
    IN  [i \in 1..n |-> Identified(uuids[i], cards[i])]

\* the host_uuid argument process_cycle hands to resolve_changes
CycleHostUuid == NilUuid

\* process_cycle: the results the cycle can have on static_cards
ProcessCycle(last_cards, current_cards, static_cards) ==
    LET found == DetermineChanges(last_cards, current_cards)
    IN  IF found.kind = "None" THEN {Returned(static_cards)}
        ELSE ResolveChanges(found, static_cards, CycleHostUuid)

\* `let mut bygone_cards = Vec::with_capacity(first_cards.len())`
InitialBygoneCards(first_cards) == <<>>

(***************************************************************************)
(* Inputs.                                                                 *)
(***************************************************************************)
BasicNote(front, tags) == Note(<<NoteField(Str_Front, <<Text(front)>>)>>, Str_Basic, tags)

NoteA == BasicNote(Str_a, <<>>)
NoteB == BasicNote(Str_b, <<>>)
NoteC == BasicNote(Str_c, <<>>)
\* the content of NoteA under a tag: another note with the same content string
NoteATagged == BasicNote(Str_a, <<Str_t>>)

\* notes of the revisions a history is drawn from
WalkNotes == {NoteA, NoteB, NoteC}
\* notes of the inputs of single calls
Notes == {NoteA, NoteB, NoteC, NoteATagged}

SeqsUpTo(S, n) == UNION { [1..k -> S] : k \in 0..n }

WalkRevisions == SeqsUpTo(WalkNotes, MaxLen)
Revisions == SeqsUpTo(Notes, MaxLen)

\* (author name, commit time in seconds) of a commit
Commits == { [author |-> Str_a, time |-> 7], [author |-> Str_b, time |-> 12] }

Inner(cards) == [i \in 1..Len(cards) |-> cards[i].inner]
Ids(cards) == [i \in 1..Len(cards) |-> cards[i].id]

(***************************************************************************)
(* Vocabulary of the properties: the change classes of a pair of revisions.*)
(***************************************************************************)
RECURSIVE IsSubseq(_, _)
\* s is t with zero or more elements removed
IsSubseq(s, t) ==
    IF s = <<>> THEN TRUE
    ELSE IF t = <<>> THEN FALSE
    ELSE IF Head(s) = Head(t) THEN IsSubseq(Tail(s), Tail(t))
    ELSE IsSubseq(s, Tail(t))

\* the multiset of the elements of a sequence
BagOf(s) == [x \in {s[i] : i \in 1..Len(s)} |-> Cardinality({i \in 1..Len(s) : s[i] = x})]

Elems(s) == {s[i] : i \in 1..Len(s)}

PureAddition(old, new) == Len(new) > Len(old) /\ IsSubseq(old, new)
PureDeletion(old, new) == Len(new) < Len(old) /\ IsSubseq(new, old)
PureReorder(old, new) == Len(new) = Len(old) /\ old # new /\ BagOf(old) = BagOf(new)
\* some notes edited in place: each edited position holds a note the old
\* revision did not have, in place of a note the new revision no longer has
PureModification(old, new) ==
    /\ Len(new) = Len(old)
    /\ old # new
    /\ \A i \in 1..Len(old) :
          old[i] # new[i] => new[i] \notin Elems(old) /\ old[i] \notin Elems(new)

SingleClass(old, new) ==
    \/ PureAddition(old, new)
    \/ PureDeletion(old, new)
    \/ PureReorder(old, new)
    \/ PureModification(old, new)

DistinctContent(rev) ==
    \A i, j \in 1..Len(rev) : i # j => ToContentString(rev[i]) # ToContentString(rev[j])

DistinctRevisions == { rev \in Revisions : DistinctContent(rev) }

(***************************************************************************)
(* State.                                                                  *)
(***************************************************************************)
VARIABLES
    pc,                \* position of the operation under way
    first_commit,      \* author and time of the oldest commit of the history
    n_revs,            \* revisions of the history consumed so far
    bygone_cards,      \* process_card_history: notes kept from the last cycle
    elder_cards,       \* process_card_history: the substrate
    rerun_cards,       \* the substrate of a second run over the same history
    preceding_cards,   \* notes parsed from the revision before the current one
    cards_of_the_day,  \* notes parsed from the current revision
    last_cards,        \* the old deck handed to determine_changes
    elder_before,      \* the substrate when the last call started
    changes,           \* the Transforms of the last call
    one_class          \* every pair of consecutive revisions so far is of one change class

\* the state of the operations outside the walk: each group belongs to one
\* operation and rests while another operation runs
VARIABLES
    twin_notes,        \* two notes handed to the Additions arm
    twin_entries,      \* the entries the Additions arm built for them
    repo,              \* get_file_history: the commits of the repository
    rev_walk,          \* get_file_history: the walk from HEAD, commits due and seen
    history,           \* get_file_history: the commits pushed so far
    source,            \* flash: the lines of the content
    items,             \* flash: the parsed items the validation has yet to visit
    builder,           \* flash: the NoteBuilder of the validation
    current_model,     \* flash: the validation's current_model
    diagnostics,       \* flash: the errors emitted so far
    parsed,            \* flash: the output, when there is one
    files,             \* the files on disk: path to content
    visited,           \* ImportExpander: the visited set
    calls,             \* ImportExpander: the top-level calls made so far
    expansion,         \* ImportExpander: what the last call returned, and its entries
    blobs,             \* Deck::from: the blob of the target in each commit of the history
    contents,          \* Deck::from: `content`, the expanded contents collected so far
    elements,          \* flash, field content: the content elements as parsed
    unmerged,          \* flash, field content: the elements the merge has yet to visit
    merged,            \* flash, field content: `merged`
    current_text       \* flash, field content: `current_text`

walk_vars == <<first_commit, n_revs, bygone_cards, elder_cards, rerun_cards,
               preceding_cards, cards_of_the_day, last_cards, elder_before, changes,
               one_class>>
content_vars == <<twin_notes, twin_entries>>
history_vars == <<repo, rev_walk, history>>
parse_vars == <<source, items, builder, current_model, diagnostics, parsed>>
import_vars == <<files, visited, calls, expansion>>
deck_vars == <<blobs, contents>>
merge_vars == <<elements, unmerged, merged, current_text>>
front_vars == <<content_vars, history_vars, parse_vars, import_vars, deck_vars, merge_vars>>
beside_content == <<history_vars, parse_vars, import_vars, deck_vars, merge_vars>>
beside_history == <<content_vars, parse_vars, import_vars, deck_vars, merge_vars>>
beside_parse == <<content_vars, history_vars, import_vars, deck_vars, merge_vars>>
beside_import == <<content_vars, history_vars, parse_vars, deck_vars, merge_vars>>
beside_deck == <<content_vars, history_vars, parse_vars, merge_vars>>
beside_merge == <<content_vars, history_vars, parse_vars, import_vars, deck_vars>>

vars == <<pc, walk_vars, front_vars>>

ContentRests == twin_notes = <<>> /\ twin_entries = <<>>
HistoryRests == repo = <<>> /\ rev_walk = <<>> /\ history = <<>>
ParseRests ==
    /\ source = <<>> /\ items = <<>> /\ builder = <<>>
    /\ current_model = <<>> /\ diagnostics = <<>> /\ parsed = <<>>
ImportRests == files = <<>> /\ visited = {} /\ calls = 0 /\ expansion = <<>>
DeckRests == blobs = <<>> /\ contents = <<>>
MergeRests == elements = <<>> /\ unmerged = <<>> /\ merged = <<>> /\ current_text = <<>>
FrontRests ==
    ContentRests /\ HistoryRests /\ ParseRests /\ ImportRests /\ DeckRests /\ MergeRests
BesideContentRests == HistoryRests /\ ParseRests /\ ImportRests /\ DeckRests /\ MergeRests
BesideHistoryRests == ContentRests /\ ParseRests /\ ImportRests /\ DeckRests /\ MergeRests
BesideParseRests == ContentRests /\ HistoryRests /\ ImportRests /\ DeckRests /\ MergeRests
BesideImportRests == ContentRests /\ HistoryRests /\ ParseRests /\ DeckRests /\ MergeRests
BesideDeckRests == ContentRests /\ HistoryRests /\ ParseRests /\ MergeRests
BesideMergeRests == ContentRests /\ HistoryRests /\ ParseRests /\ ImportRests /\ DeckRests
WalkRests ==
    /\ n_revs = 0
    /\ bygone_cards = <<>>
    /\ elder_cards = <<>>
    /\ rerun_cards = <<>>
    /\ preceding_cards = <<>>
    /\ cards_of_the_day = <<>>
    /\ last_cards = <<>>
    /\ elder_before = <<>>
    /\ changes = NoChange
    /\ one_class = TRUE

(***************************************************************************)
(* process_card_history over a history drawn revision by revision.         *)
(***************************************************************************)
Init ==
    /\ pc = "start"
    /\ first_commit \in Commits
    /\ n_revs = 0
    /\ bygone_cards = <<>>
    /\ elder_cards = <<>>
    /\ rerun_cards = <<>>
    /\ preceding_cards = <<>>
    /\ cards_of_the_day = <<>>
    /\ last_cards = <<>>
    /\ elder_before = <<>>
    /\ changes = NoChange
    /\ one_class = TRUE
    /\ FrontRests

\* history_iter.next() on an empty history
EmptyHistory ==
    /\ pc = "start"
    /\ pc' = "error"
    /\ UNCHANGED <<first_commit, one_class, n_revs, bygone_cards, elder_cards, rerun_cards,
                   preceding_cards, cards_of_the_day, last_cards, elder_before, changes>>
    /\ UNCHANGED front_vars

\* the first entry: parse content[0], initialize the substrate
FirstRevision ==
    /\ pc = "start"
    /\ \E first_cards \in WalkRevisions :
         LET cards == InitializeCards(first_cards,
                                      GenerateNoteUuids(first_cards, first_commit))
         IN  /\ bygone_cards' = InitialBygoneCards(first_cards)
             /\ elder_cards' = cards
             /\ rerun_cards' = cards
             /\ cards_of_the_day' = first_cards
    /\ pc' = "loop"
    /\ n_revs' = 1
    /\ UNCHANGED <<first_commit, one_class, preceding_cards, last_cards, elder_before, changes>>
    /\ UNCHANGED front_vars

\* one iteration of the loop: parse content[idx + 1], process_cycle, age the cards
NextRevision ==
    /\ pc = "loop"
    /\ n_revs < MaxRevs
    /\ \E current \in WalkRevisions :
         /\ \E run \in ProcessCycle(bygone_cards, current, elder_cards),
               rerun \in ProcessCycle(bygone_cards, current, rerun_cards) :
                IF run.ok /\ rerun.ok
                THEN /\ pc' = "loop"
                     /\ elder_cards' = run.cards
                     /\ rerun_cards' = rerun.cards
                ELSE /\ pc' = "panic"
                     /\ UNCHANGED <<elder_cards, rerun_cards>>
         /\ changes' = DetermineChanges(bygone_cards, current)
         /\ last_cards' = bygone_cards
         /\ bygone_cards' = current
         /\ preceding_cards' = cards_of_the_day
         /\ cards_of_the_day' = current
         /\ one_class' = (one_class /\ SingleClass(cards_of_the_day, current))
    /\ elder_before' = elder_cards
    /\ n_revs' = n_revs + 1
    /\ UNCHANGED first_commit
    /\ UNCHANGED front_vars

\* the history is exhausted: Ok(elder_cards)
ReturnCards ==
    /\ pc = "loop"
    /\ pc' = "done"
    /\ UNCHANGED <<first_commit, one_class, n_revs, bygone_cards, elder_cards, rerun_cards,
                   preceding_cards, cards_of_the_day, last_cards, elder_before, changes>>
    /\ UNCHANGED front_vars

Next == EmptyHistory \/ FirstRevision \/ NextRevision \/ ReturnCards

Spec == Init /\ [][Next]_vars

(***************************************************************************)
(* Single calls: determine_changes on a drawn pair of decks followed by    *)
(* resolve_changes on a substrate holding the old deck, and resolve_changes*)
(* on a drawn Transforms and a drawn substrate.                            *)
(***************************************************************************)
\* the host_uuid argument of the call
HostUuid == CreateHostUuid(first_commit.author, first_commit.time)

\* substrates holding a deck: ids as initialize_cards issues them, or ids
\* unrelated to the content, one per position
SubstratesOf(deck, commit) ==
    { InitializeCards(deck, GenerateNoteUuids(deck, commit)),
      [i \in 1..Len(deck) |-> Identified(NewV5(NamespaceDns, <<i>>), deck[i])] }

CallNotes == {NoteB, NoteATagged}
CallEntries ==
    { Identified(NewV5(NamespaceDns, <<1>>), NoteA),
      Identified(NewV5(NamespaceDns, <<2>>), NoteA),
      Identified(NewV5(NamespaceDns, <<1>>), NoteB) }
CallSubstrates == SeqsUpTo(CallEntries, MaxLen)
CallLists(S) == SeqsUpTo(S, MaxList)
CallTransforms ==
    { Additions(l) : l \in CallLists((0..MaxLen) \X CallNotes) }
    \cup { Deletions(l) : l \in CallLists(0..MaxLen) }
    \cup { Modifications(l) : l \in CallLists((0..MaxLen) \X CallNotes) }
    \cup { Reorders(ps) :
             ps \in SUBSET { m \in (0..(MaxLen - 1)) \X (0..(MaxLen - 1)) : m[1] < m[2] } }

InitPair ==
    /\ pc = "classify"
    /\ first_commit \in Commits
    /\ bygone_cards \in Revisions
    /\ cards_of_the_day \in Revisions
    /\ elder_cards \in SubstratesOf(bygone_cards, first_commit)
    /\ changes = NoChange

InitCall ==
    /\ pc = "call"
    /\ first_commit \in Commits
    /\ bygone_cards = <<>>
    /\ cards_of_the_day = <<>>
    /\ elder_cards \in CallSubstrates
    /\ changes \in CallTransforms

InitUnit ==
    /\ InitPair \/ InitCall
    /\ n_revs = 0
    /\ rerun_cards = <<>>
    /\ preceding_cards = <<>>
    /\ last_cards = <<>>
    /\ elder_before = <<>>
    /\ one_class = TRUE
    /\ FrontRests

\* determine_changes(deck_1, deck_2)
Classify ==
    /\ pc = "classify"
    /\ changes' = DetermineChanges(bygone_cards, cards_of_the_day)
    /\ last_cards' = bygone_cards
    /\ pc' = "resolve"
    /\ UNCHANGED <<first_commit, one_class, n_revs, bygone_cards, elder_cards, rerun_cards,
                   preceding_cards, cards_of_the_day, elder_before>>
    /\ UNCHANGED front_vars

\* resolve_changes on the classifier's answer, when it is Some
Resolve ==
    /\ pc = "resolve"
    /\ \E out \in (IF changes.kind = "None" THEN {Returned(elder_cards)}
                   ELSE ResolveChanges(changes, elder_cards, HostUuid)) :
          /\ pc' = IF out.ok THEN "resolved" ELSE "panic"
          /\ elder_cards' = IF out.ok THEN out.cards ELSE elder_cards
    /\ elder_before' = elder_cards
    /\ UNCHANGED <<first_commit, one_class, n_revs, bygone_cards, rerun_cards, preceding_cards,
                   cards_of_the_day, last_cards, changes>>
    /\ UNCHANGED front_vars

\* resolve_changes on a drawn Transforms
Call ==
    /\ pc = "call"
    /\ \E out \in ResolveChanges(changes, elder_cards, HostUuid) :
          /\ pc' = IF out.ok THEN "returned" ELSE "call_panic"
          /\ elder_cards' = IF out.ok THEN out.cards ELSE elder_cards
    /\ elder_before' = elder_cards
    /\ UNCHANGED <<first_commit, one_class, n_revs, bygone_cards, rerun_cards, preceding_cards,
                   cards_of_the_day, last_cards, changes>>
    /\ UNCHANGED front_vars

NextUnit == Classify \/ Resolve \/ Call

SpecUnit == InitUnit /\ [][NextUnit]_vars

(***************************************************************************)
(* The fold with one fixed host uuid: from the substrate initialize_cards  *)
(* builds for a first revision, each step classifies a single-class change *)
(* between revisions of pairwise distinct content and resolves it.         *)
(***************************************************************************)
InitFold ==
    /\ pc = "fold"
    /\ first_commit \in Commits
    /\ n_revs = 1
    /\ cards_of_the_day \in DistinctRevisions
    /\ elder_cards = InitializeCards(cards_of_the_day,
                                     GenerateNoteUuids(cards_of_the_day, first_commit))
    /\ bygone_cards = <<>>
    /\ rerun_cards = <<>>
    /\ preceding_cards = <<>>
    /\ last_cards = <<>>
    /\ elder_before = <<>>
    /\ changes = NoChange
    /\ one_class = TRUE
    /\ FrontRests

FoldStep ==
    /\ pc = "fold"
    /\ n_revs <= MaxSteps
    /\ \E new \in DistinctRevisions :
         /\ SingleClass(cards_of_the_day, new)
         /\ changes' = DetermineChanges(cards_of_the_day, new)
         /\ \E out \in ResolveChanges(changes', elder_cards, HostUuid) :
               /\ pc' = IF out.ok THEN "fold" ELSE "panic"
               /\ elder_cards' = IF out.ok THEN out.cards ELSE elder_cards
         /\ cards_of_the_day' = new
    /\ last_cards' = cards_of_the_day
    /\ preceding_cards' = cards_of_the_day
    /\ elder_before' = elder_cards
    /\ n_revs' = n_revs + 1
    /\ UNCHANGED <<first_commit, one_class, bygone_cards, rerun_cards>>
    /\ UNCHANGED front_vars

NextFold == FoldStep

SpecFold == InitFold /\ [][NextFold]_vars

(***************************************************************************)
(* The Additions arm of resolve_changes on two notes under one host uuid:  *)
(* each note is added to an empty substrate.                               *)
(***************************************************************************)
\* notes of one field Front: plain text, clozes of several ids and hints,
\* with and without a tag
ClozeNote(content, tags) == Note(<<NoteField(Str_Front, content)>>, Str_Basic, tags)

TwinNotes ==
    { ClozeNote(<<Text(Str_a)>>, <<>>),
      ClozeNote(<<Text(Str_a)>>, <<Str_t>>),
      ClozeNote(<<ClozeEl(0, Str_a, <<>>)>>, <<>>),
      ClozeNote(<<ClozeEl(1, Str_a, Str_b)>>, <<Str_t>>),
      ClozeNote(<<Text(Str_a), ClozeEl(0, Str_b, <<>>)>>, <<>>),
      ClozeNote(<<Text(Str_a), ClozeEl(2, Str_b, Str_c)>>, <<Str_t>>),
      ClozeNote(<<Text(Str_a \o Str_b)>>, <<>>),
      ClozeNote(<<Text(Str_b)>>, <<>>) }

InitContent ==
    /\ pc = "twins"
    /\ first_commit \in Commits
    /\ twin_notes \in TwinNotes \X TwinNotes
    /\ twin_entries = <<>>
    /\ WalkRests
    /\ BesideContentRests

\* resolve_changes(Additions([(0, note)]), [], host_uuid), once per note
Identify ==
    /\ pc = "twins"
    /\ \E left \in ResolveChanges(Additions(<<<<0, twin_notes[1]>>>>), <<>>, HostUuid),
          right \in ResolveChanges(Additions(<<<<0, twin_notes[2]>>>>), <<>>, HostUuid) :
            /\ left.ok /\ right.ok
            /\ twin_entries' = <<left.cards[1], right.cards[1]>>
    /\ pc' = "identified"
    /\ UNCHANGED <<walk_vars, twin_notes, beside_content>>

NextContent == Identify

SpecContent == InitContent /\ [][NextContent]_vars


(***************************************************************************)
(* get_file_history over a repository of a few commits.  A commit has its  *)
(* parents in order and the blob its tree holds at the target path.        *)
(***************************************************************************)
\* what lookup_entry_by_path(target).filter(is_blob) finds in a tree: no
\* blob, or the oid of one
Absent == "absent"
Oids == {"x", "y"}

\* the parent lists a commit can have: up to two distinct older commits
ParentLists(c) ==
    { ps \in SeqsUpTo(1..(c - 1), 2) : \A i, j \in 1..Len(ps) : i # j => ps[i] # ps[j] }

\* the repositories of n commits; HEAD is the newest commit
Repositories(n) ==
    { [head |-> n, parents |-> ps, blob |-> bs] :
        ps \in { f \in [1..n -> SeqsUpTo(1..n, 2)] : \A c \in 1..n : f[c] \in ParentLists(c) },
        bs \in [1..n -> Oids \cup {Absent}] }

InitHistory ==
    /\ pc = "rev_walk"
    /\ repo \in UNION { Repositories(n) : n \in 1..MaxCommits }
    /\ rev_walk = [due |-> <<repo.head>>, seen |-> {repo.head}]
    /\ history = <<>>
    /\ first_commit = [author |-> Str_a, time |-> 7]
    /\ WalkRests
    /\ BesideHistoryRests

\* the commit the walk yields next
WalkedCommit == Head(rev_walk.due)

RECURSIVE QueueParents(_, _)
\* the walk after yielding a commit: its parents not seen yet are due, in order
QueueParents(walk, parent_ids) ==
    IF parent_ids = <<>> THEN walk
    ELSE LET p == Head(parent_ids)
         IN  QueueParents(IF p \in walk.seen THEN walk
                          ELSE [due |-> Append(walk.due, p), seen |-> walk.seen \cup {p}],
                          Tail(parent_ids))

AdvanceWalk ==
    rev_walk' = QueueParents([due |-> Tail(rev_walk.due), seen |-> rev_walk.seen],
                             repo.parents[WalkedCommit])

\* the loop over parent_ids: file_changed is set at the first parent that
\* lacks the blob or holds another oid
FileChanged(commit) ==
    \E i \in 1..Len(repo.parents[commit]) :
        LET p == repo.parents[commit][i]
        IN  repo.blob[p] = Absent \/ repo.blob[p] # repo.blob[commit]

\* current_entry.is_none(): continue
SkipCommit ==
    /\ pc = "rev_walk" /\ rev_walk.due # <<>>
    /\ repo.blob[WalkedCommit] = Absent
    /\ AdvanceWalk
    /\ UNCHANGED <<pc, repo, history, walk_vars, beside_history>>

\* parent_ids.is_empty(): the commit is pushed
PushInitial ==
    /\ pc = "rev_walk" /\ rev_walk.due # <<>>
    /\ repo.blob[WalkedCommit] # Absent
    /\ repo.parents[WalkedCommit] = <<>>
    /\ history' = Append(history, WalkedCommit)
    /\ AdvanceWalk
    /\ UNCHANGED <<pc, repo, walk_vars, beside_history>>

\* file_changed: the commit is pushed
PushChanged ==
    /\ pc = "rev_walk" /\ rev_walk.due # <<>>
    /\ repo.blob[WalkedCommit] # Absent
    /\ repo.parents[WalkedCommit] # <<>>
    /\ FileChanged(WalkedCommit)
    /\ history' = Append(history, WalkedCommit)
    /\ AdvanceWalk
    /\ UNCHANGED <<pc, repo, walk_vars, beside_history>>

\* not file_changed: the commit is passed over
SkipUnchanged ==
    /\ pc = "rev_walk" /\ rev_walk.due # <<>>
    /\ repo.blob[WalkedCommit] # Absent
    /\ repo.parents[WalkedCommit] # <<>>
    /\ ~FileChanged(WalkedCommit)
    /\ AdvanceWalk
    /\ UNCHANGED <<pc, repo, history, walk_vars, beside_history>>

\* the walk is over: history.reverse(), Err(FileNotInHistory) when empty
FinishHistory ==
    /\ pc = "rev_walk" /\ rev_walk.due = <<>>
    /\ history' = Reverse(history)
    /\ pc' = IF history = <<>> THEN "history_error" ELSE "history"
    /\ UNCHANGED <<repo, rev_walk, walk_vars, beside_history>>

NextHistory == SkipCommit \/ PushInitial \/ PushChanged \/ SkipUnchanged \/ FinishHistory

SpecHistory == InitHistory /\ [][NextHistory]_vars


(***************************************************************************)
(* The parser flash (parse.rs): the grammar turns the lines of the content *)
(* into items, the validation walks the items with a NoteBuilder.          *)
(***************************************************************************)
Str_Back == <<66, 97>>
Str_Cloze == <<67>>
Str_Text == <<84>>
Str_Q == <<81>>
Str_Unknown == <<85>>

\* NoteModel { name, fields, .. }: the fields by their names
NoteModel(name, fields) == [name |-> name, fields |-> fields]

\* available_models
AvailableModels ==
    << NoteModel(Str_Basic, <<Str_Front, Str_Back>>), NoteModel(Str_Cloze, <<Str_Text>>) >>

\* Option: None and Some(x)
None == <<>>
Some(x) == <<x>>

\* FlashItem
ItemNoteModel(name) == [kind |-> "NoteModel", name |-> name]
ItemAlias(from, to) == [kind |-> "Alias", from |-> from, to |-> to]
ItemTags(tags) == [kind |-> "Tags", tags |-> tags]
ItemField(name, content) == [kind |-> "Field", name |-> name, content |-> content]
ItemComment == [kind |-> "Comment"]
ItemBlankLine == [kind |-> "BlankLine"]
\* a line that no alternative of `choice` accepts
Malformed == [kind |-> "Malformed"]

\* available_models.iter().find(|m| m.name == name)
FindModel(name) ==
    LET hits == { i \in 1..Len(AvailableModels) : AvailableModels[i].name = name }
    IN  IF hits = {} THEN None
        ELSE Some(AvailableModels[CHOOSE i \in hits : \A j \in hits : i <= j])

\* model.fields.iter().any(|f| f.name == name)
FieldExistsInModel(model, field_name) ==
    \E i \in 1..Len(model.fields) : model.fields[i] = field_name

\* NoteBuilder::default(); the aliases map is a set of entries <<key, value>>
NoteBuilderDefault ==
    [current_model |-> None, aliases |-> {}, tags |-> <<>>, fields |-> <<>>, notes |-> <<>>]

HasPendingNote(b) == b.fields # <<>>

\* NoteBuilder::finalize_note
FinalizeNote(b) ==
    IF ~HasPendingNote(b) THEN b
    ELSE IF b.current_model # None
         THEN [b EXCEPT !.notes = Append(b.notes,
                                         Note(b.fields, b.current_model[1].name, b.tags)),
                        !.fields = <<>>,
                        !.tags = <<>>]
         ELSE [b EXCEPT !.fields = <<>>, !.tags = <<>>]

\* NoteBuilder::add_tags
AddTags(b, tags) == [b EXCEPT !.tags = b.tags \o tags]

\* NoteBuilder::add_field
AddField(b, field) == [b EXCEPT !.fields = Append(b.fields, field)]

\* NoteBuilder::has_alias
HasAlias(b, alias) == \E e \in b.aliases : e[1] = alias

\* NoteBuilder::add_alias: aliases.insert(to, from) under an active model
AddAlias(b, from, to) ==
    IF b.current_model # None
    THEN [b EXCEPT !.aliases = { e \in b.aliases : e[1] # to } \cup {<<to, from>>}]
    ELSE b

\* NoteBuilder::into_notes
IntoNotes(b) == FinalizeNote(b).notes

\* the state of the validation: the builder, the closure's current_model and
\* the errors handed to the emitter
Validation(b, model, errs) == [builder |-> b, current_model |-> model, diagnostics |-> errs]

Emit(st, error) == [st EXCEPT !.diagnostics = Append(st.diagnostics, error)]

\* the arm FlashItem::NoteModel(name)
ValidateNoteModel(st, name) ==
    LET found == FindModel(name)
    IN  IF found # None
        THEN [st EXCEPT !.current_model = found, !.builder.current_model = found]
        ELSE [Emit(st, "UnknownModel") EXCEPT !.current_model = None]

\* the arm FlashItem::Field { name, content }
ValidateField(st, name, content) ==
    IF st.current_model # None
    THEN IF FieldExistsInModel(st.current_model[1], name) \/ HasAlias(st.builder, name)
         THEN [st EXCEPT !.builder = AddField(st.builder, NoteField(name, content))]
         ELSE Emit(st, "UnknownField")
    ELSE Emit(st, "ModelNotSpecified")

\* the arm FlashItem::Alias { from, to }
ValidateAlias(st, from, to) ==
    IF st.current_model # None
    THEN IF FieldExistsInModel(st.current_model[1], from)
         THEN [st EXCEPT !.builder = AddAlias(st.builder, from, to)]
         ELSE Emit(st, "InvalidAliasTarget")
    ELSE Emit(st, "ModelNotSpecified")

\* the arm FlashItem::Tags(tags)
ValidateTags(st, tags) == [st EXCEPT !.builder = AddTags(st.builder, tags)]

\* one turn of the loop over the items
ValidateItem(st, item) ==
    CASE item.kind = "NoteModel" -> ValidateNoteModel(st, item.name)
      [] item.kind = "Field" -> ValidateField(st, item.name, item.content)
      [] item.kind = "Alias" -> ValidateAlias(st, item.from, item.to)
      [] item.kind = "Tags" -> ValidateTags(st, item.tags)
      [] item.kind \in {"Comment", "BlankLine"} -> st

RECURSIVE ValidateItems(_, _)
ValidateItems(st, rest) ==
    IF rest = <<>> THEN st ELSE ValidateItems(ValidateItem(st, Head(rest)), Tail(rest))

\* item.repeated().collect().then_ignore(end()): the items of the lines, or
\* no output when a line is no item
Accepted(lines) == \A i \in 1..Len(lines) : lines[i] # Malformed

\* flash(models).parse(content): the output, when there is one, and the errors
Flash(lines) ==
    IF ~Accepted(lines) THEN [output |-> None, errs |-> <<"Syntax">>]
    ELSE LET st == ValidateItems(Validation(NoteBuilderDefault, None, <<>>), lines)
         IN  [output |-> Some(IntoNotes(st.builder)), errs |-> st.diagnostics]

\* Result: Ok(value) and Err
Ok(value) == [ok |-> TRUE, value |-> value]
ErrParse == [ok |-> FALSE, value |-> <<>>]

\* parse_cards handing out the output whenever there is one
ParseCardsLenient(lines) ==
    LET result == Flash(lines)
    IN  IF result.output # None THEN Ok(result.output[1]) ELSE ErrParse

\* Deck::parse_cards: into_result() is Ok only without errors
ParseCards(lines) ==
    LET result == Flash(lines)
    IN  IF result.errs = <<>> /\ result.output # None THEN Ok(result.output[1]) ELSE ErrParse

\* the lines a content is drawn from
FieldFront == ItemField(Str_Front, <<Text(Str_a)>>)
FieldBack == ItemField(Str_Back, <<Text(Str_b)>>)
FieldQ == ItemField(Str_Q, <<Text(Str_a)>>)
FieldText == ItemField(Str_Text, <<Text(Str_c)>>)
Lines ==
    { ItemNoteModel(Str_Basic), ItemNoteModel(Str_Cloze), ItemNoteModel(Str_Unknown),
      ItemAlias(Str_Front, Str_Q), ItemAlias(Str_Q, Str_Front), ItemTags(<<Str_t>>),
      FieldFront, FieldBack, FieldQ, FieldText, ItemBlankLine, Malformed }

InitParse ==
    /\ pc = "parse"
    /\ source \in SeqsUpTo(Lines, MaxLines)
    /\ items = <<>>
    /\ builder = NoteBuilderDefault
    /\ current_model = None
    /\ diagnostics = <<>>
    /\ parsed = None
    /\ first_commit = [author |-> Str_a, time |-> 7]
    /\ WalkRests
    /\ BesideParseRests

\* the grammar accepts every line: the validation starts on the items
ParseItems ==
    /\ pc = "parse"
    /\ Accepted(source)
    /\ items' = source
    /\ pc' = "validate"
    /\ UNCHANGED <<source, builder, current_model, diagnostics, parsed, walk_vars, beside_parse>>

\* the grammar stops at a line that is no item: an error and no output
SyntaxError ==
    /\ pc = "parse"
    /\ ~Accepted(source)
    /\ diagnostics' = <<"Syntax">>
    /\ parsed' = None
    /\ pc' = "flashed"
    /\ UNCHANGED <<source, items, builder, current_model, walk_vars, beside_parse>>

\* the validation as the loop holds it
Validating == Validation(builder, current_model, diagnostics)

\* the loop moves to the next item with the state an arm left
Validated(st) ==
    /\ builder' = st.builder
    /\ current_model' = st.current_model
    /\ diagnostics' = st.diagnostics
    /\ items' = Tail(items)
    /\ UNCHANGED <<pc, source, parsed, walk_vars, beside_parse>>

NoteModelItem ==
    /\ pc = "validate" /\ items # <<>>
    /\ Head(items).kind = "NoteModel"
    /\ Validated(ValidateNoteModel(Validating, Head(items).name))

FieldItem ==
    /\ pc = "validate" /\ items # <<>>
    /\ Head(items).kind = "Field"
    /\ Validated(ValidateField(Validating, Head(items).name, Head(items).content))

AliasItem ==
    /\ pc = "validate" /\ items # <<>>
    /\ Head(items).kind = "Alias"
    /\ Validated(ValidateAlias(Validating, Head(items).from, Head(items).to))

TagsItem ==
    /\ pc = "validate" /\ items # <<>>
    /\ Head(items).kind = "Tags"
    /\ Validated(ValidateTags(Validating, Head(items).tags))

\* the arm FlashItem::Comment(_) | FlashItem::BlankLine
OtherItem ==
    /\ pc = "validate" /\ items # <<>>
    /\ Head(items).kind \in {"Comment", "BlankLine"}
    /\ Validated(Validating)

\* builder.into_notes(): the output of flash
Finish ==
    /\ pc = "validate"
    /\ items = <<>>
    /\ parsed' = Some(IntoNotes(builder))
    /\ pc' = "flashed"
    /\ UNCHANGED <<source, items, builder, current_model, diagnostics, walk_vars, beside_parse>>

\* Deck::parse_cards: into_result().map_err(DeckError::Parse)
IntoResult ==
    /\ pc = "flashed"
    /\ pc' = IF diagnostics = <<>> /\ parsed # None THEN "parse_ok" ELSE "parse_error"
    /\ UNCHANGED <<parse_vars, walk_vars, beside_parse>>

NextParse ==
    \/ ParseItems \/ SyntaxError
    \/ NoteModelItem \/ FieldItem \/ AliasItem \/ TagsItem \/ OtherItem
    \/ Finish \/ IntoResult

SpecParse == InitParse /\ [][NextParse]_vars


(***************************************************************************)
(* The import expander (parse.rs).  A text is a sequence of tokens: the    *)
(* newline, and the body of a line (an import directive, or the text of an *)
(* item of the grammar).                                                   *)
(***************************************************************************)
\* '\n'
Newline == [kind |-> "Newline"]
\* the text `import <path>`
Import(path) == [kind |-> "Import", path |-> path]

RECURSIVE SplitLines(_, _, _)
\* str::lines: the text between newlines; a last line need not end in one
SplitLines(text, line, done) ==
    IF text = <<>> THEN (IF line = <<>> THEN done ELSE Append(done, line))
    ELSE IF Head(text) = Newline THEN SplitLines(Tail(text), <<>>, Append(done, line))
    ELSE SplitLines(Tail(text), Append(line, Head(text)), done)

TextLines(text) == SplitLines(text, <<>>, <<>>)

\* trimmed.strip_prefix("import ") is Some
IsImportLine(line) == line # <<>> /\ Head(line).kind = "Import"

\* expanded.ends_with("\n\n")
EndsWithBlankLine(text) ==
    Len(text) >= 2 /\ text[Len(text)] = Newline /\ text[Len(text) - 1] = Newline

\* the newline pushed after an imported block, whatever the block ends with
SeparatorAlways(expanded) == <<Newline>>

\* the newline pushed after an imported block
Separator(expanded) == IF EndsWithBlankLine(expanded) THEN <<>> ELSE <<Newline>>

\* the files of the directory, and a path no file has
Paths == {"A", "B", "C", "D"}
MissingPath == "M"

\* fs::read_to_string and canonicalize succeed on the paths of files
Readable(fs, path) == path \in DOMAIN fs

\* Result<String, String> of expand, with the expander's visited set after
\* the call and the entries of the call: each file entered, the chain of
\* files under expansion at that moment, and whether the entry was refused
ExpandOk(out, x) == [ok |-> TRUE, out |-> out, err |-> "", visited |-> x.visited, log |-> x.log]
ExpandErr(err, x) == [ok |-> FALSE, out |-> <<>>, err |-> err, visited |-> x.visited, log |-> x.log]

\* `self.visited.remove(&canonical)` before Ok(result)
Leave(r, current_file) == [r EXCEPT !.visited = r.visited \ {current_file}]

RECURSIVE Expand(_, _, _, _, _)
RECURSIVE ExpandLines(_, _, _, _, _, _)
\* ImportExpander::expand(content, current_file), with visited and the
\* entries so far in x, below the files of chain
Expand(fs, x, chain, content, current_file) ==
    IF ~Readable(fs, current_file) THEN ExpandErr("Cannot resolve path", x)
    ELSE LET entered == [x EXCEPT !.log = Append(x.log,
                                      [file |-> current_file, chain |-> chain,
                                       refused |-> current_file \in x.visited])]
         IN  IF current_file \in x.visited
             THEN ExpandErr("Circular import detected", entered)
             ELSE LET r == ExpandLines(fs,
                                       [entered EXCEPT !.visited = x.visited \cup {current_file}],
                                       Append(chain, current_file),
                                       TextLines(content), current_file, <<>>)
                  IN  IF r.ok THEN Leave(r, current_file) ELSE r

\* the loop over content.lines()
ExpandLines(fs, x, chain, lines, current_file, result) ==
    IF lines = <<>> THEN ExpandOk(result, x)
    ELSE IF IsImportLine(Head(lines))
         THEN LET import_file == Head(Head(lines)).path
              IN  IF ~Readable(fs, import_file) THEN ExpandErr("Cannot read import", x)
                  ELSE LET e == Expand(fs, x, chain, fs[import_file], import_file)
                       IN  IF ~e.ok THEN e
                           ELSE ExpandLines(fs, [visited |-> e.visited, log |-> e.log], chain,
                                            Tail(lines), current_file,
                                            result \o e.out \o Separator(e.out))
         ELSE ExpandLines(fs, x, chain, Tail(lines), current_file,
                          result \o Head(lines) \o <<Newline>>)

\* ImportExpander::expand_file(path)
ExpandFile(fs, x, path) ==
    IF ~Readable(fs, path) THEN ExpandErr("Cannot read file", x)
    ELSE Expand(fs, x, <<>>, fs[path], path)

\* the texts a file is drawn from
FileTexts ==
    { <<>>,
      <<FieldFront>>,
      <<FieldFront, Newline>>,
      <<FieldFront, Newline, Newline>>,
      <<Import("A"), Newline>>,
      <<Import("D"), Newline>>,
      <<Import(MissingPath), Newline>>,
      <<Import("B"), Newline, Import("C"), Newline>>,
      <<FieldBack, Newline, Import("D"), Newline, FieldFront>> }

InitImport ==
    /\ pc = "expander"
    /\ files \in [Paths -> FileTexts]
    /\ visited = {}
    /\ calls = 0
    /\ expansion = <<>>
    /\ first_commit = [author |-> Str_a, time |-> 7]
    /\ WalkRests
    /\ BesideImportRests

\* a call of expand_file on the expander
ExpandCall ==
    /\ pc = "expander"
    /\ calls < MaxCalls
    /\ \E path \in Paths \cup {MissingPath} :
          LET r == ExpandFile(files, [visited |-> visited, log |-> <<>>], path)
          IN  /\ expansion' = [root |-> path, before |-> visited, result |-> r]
              /\ visited' = r.visited
    /\ calls' = calls + 1
    /\ UNCHANGED <<pc, files, walk_vars, beside_import>>

NextImport == ExpandCall

SpecImport == InitImport /\ [][NextImport]_vars


(***************************************************************************)
(* Deck::from once the history is found: the contents are collected with   *)
(* get_content, then process_card_history parses them one by one.          *)
(***************************************************************************)
\* the item a line of a text is to the grammar: nothing between two
\* newlines is a blank line, an import directive is no item
LineItem(line) ==
    IF line = <<>> THEN ItemBlankLine
    ELSE IF Len(line) = 1 /\ Head(line).kind # "Import" THEN Head(line)
    ELSE Malformed

\* Token::lexer(content) and the grammar's lines
ItemsOf(text) == [i \in 1..Len(TextLines(text)) |-> LineItem(TextLines(text)[i])]

\* parse_cards_from_content
ParseCardsFromContent(text) == ParseCards(ItemsOf(text))

\* <workdir>/index.flash
IndexPath == "I"

\* get_content before the unwrap: the blob expanded by a new expander
ExpandBlob(fs, blob) == Expand(fs, [visited |-> {}, log |-> <<>>], <<>>, blob, IndexPath)

\* the texts of the target's blobs
HeaderBasic == <<ItemNoteModel(Str_Basic), Newline>>
RevisionTexts ==
    { <<>>,
      HeaderBasic \o <<FieldFront, Newline>>,
      HeaderBasic \o <<FieldBack, Newline>>,
      HeaderBasic \o <<FieldFront, Newline, FieldBack, Newline>>,
      <<ItemNoteModel(Str_Unknown), Newline, FieldFront, Newline>>,
      <<ItemNoteModel(Str_Cloze), Newline, FieldFront, Newline>>,
      HeaderBasic \o <<ItemAlias(Str_Q, Str_Front), Newline, FieldFront, Newline>>,
      <<FieldFront, Newline>>,
      HeaderBasic \o <<FieldFront, Newline, Malformed, Newline>>,
      HeaderBasic \o <<Import("A"), Newline>>,
      HeaderBasic \o <<FieldFront, Newline, Import(MissingPath), Newline>>,
      HeaderBasic \o <<FieldFront, Newline, Import(IndexPath), Newline>> }

\* the working tree: index.flash and an importable file, or the importable
\* file alone
DeckFiles ==
    { [path \in {IndexPath, "A"} |-> <<FieldFront, Newline>>],
      [path \in {"A"} |-> <<FieldFront, Newline>>] }

InitDeck ==
    /\ pc = "collect"
    /\ first_commit = [author |-> Str_a, time |-> 7]
    /\ files \in DeckFiles
    /\ visited = {} /\ calls = 0 /\ expansion = <<>>
    /\ blobs \in SeqsUpTo(RevisionTexts, MaxRevs) \ {<<>>}
    /\ contents = <<>>
    /\ WalkRests
    /\ BesideDeckRests

deck_frame == <<first_commit, rerun_cards, one_class, import_vars, blobs, beside_deck>>

\* get_content on the next entry of the history: Ok(expanded)
ContentExpanded ==
    /\ pc = "collect"
    /\ Len(contents) < Len(blobs)
    /\ LET r == ExpandBlob(files, blobs[Len(contents) + 1])
       IN  /\ r.ok
           /\ contents' = Append(contents, r.out)
    /\ UNCHANGED <<pc, n_revs, bygone_cards, elder_cards, preceding_cards, cards_of_the_day,
                   last_cards, elder_before, changes, deck_frame>>

\* get_content on the next entry of the history: expand returns Err and
\* the unwrap panics
ContentPanics ==
    /\ pc = "collect"
    /\ Len(contents) < Len(blobs)
    /\ ~ExpandBlob(files, blobs[Len(contents) + 1]).ok
    /\ pc' = "deck_panic"
    /\ UNCHANGED <<contents, n_revs, bygone_cards, elder_cards, preceding_cards,
                   cards_of_the_day, last_cards, elder_before, changes, deck_frame>>

\* what the first entry gives: the parse of content[0], then
\* generate_note_uuids, which parses the blob as read_file_content returns it
FirstCards == ParseCardsFromContent(contents[1])
FirstUuidNotes == ParseCards(ItemsOf(blobs[1]))

\* process_card_history, the first entry: one of the two parses fails
FirstEntryFails ==
    /\ pc = "collect"
    /\ Len(contents) = Len(blobs)
    /\ ~FirstCards.ok \/ ~FirstUuidNotes.ok
    /\ pc' = "deck_error"
    /\ n_revs' = 1
    /\ UNCHANGED <<contents, bygone_cards, elder_cards, preceding_cards, cards_of_the_day,
                   last_cards, elder_before, changes, deck_frame>>

\* process_card_history, the first entry: initialize_cards
FirstEntry ==
    /\ pc = "collect"
    /\ Len(contents) = Len(blobs)
    /\ FirstCards.ok /\ FirstUuidNotes.ok
    /\ elder_cards' = InitializeCards(FirstCards.value,
                                      GenerateNoteUuids(FirstUuidNotes.value, first_commit))
    /\ bygone_cards' = InitialBygoneCards(FirstCards.value)
    /\ cards_of_the_day' = FirstCards.value
    /\ pc' = "walk"
    /\ n_revs' = 1
    /\ UNCHANGED <<contents, preceding_cards, last_cards, elder_before, changes, deck_frame>>

\* the loop: parse_cards_from_content(content[idx + 1]) fails
NextEntryFails ==
    /\ pc = "walk"
    /\ n_revs < Len(contents)
    /\ ~ParseCardsFromContent(contents[n_revs + 1]).ok
    /\ pc' = "deck_error"
    /\ n_revs' = n_revs + 1
    /\ UNCHANGED <<contents, bygone_cards, elder_cards, preceding_cards, cards_of_the_day,
                   last_cards, elder_before, changes, deck_frame>>

\* the loop: parse, process_cycle, age the cards
NextEntry ==
    /\ pc = "walk"
    /\ n_revs < Len(contents)
    /\ LET parse == ParseCardsFromContent(contents[n_revs + 1])
       IN  /\ parse.ok
           /\ \E run \in ProcessCycle(bygone_cards, parse.value, elder_cards) :
                 /\ pc' = IF run.ok THEN "walk" ELSE "deck_panic"
                 /\ elder_cards' = IF run.ok THEN run.cards ELSE elder_cards
           /\ changes' = DetermineChanges(bygone_cards, parse.value)
           /\ last_cards' = bygone_cards
           /\ bygone_cards' = parse.value
           /\ preceding_cards' = cards_of_the_day
           /\ cards_of_the_day' = parse.value
    /\ elder_before' = elder_cards
    /\ n_revs' = n_revs + 1
    /\ UNCHANGED <<contents, deck_frame>>

\* the history is exhausted: Ok(elder_cards), and Deck::from returns the deck
ReturnDeck ==
    /\ pc = "walk"
    /\ n_revs = Len(contents)
    /\ pc' = "deck"
    /\ UNCHANGED <<contents, n_revs, bygone_cards, elder_cards, preceding_cards,
                   cards_of_the_day, last_cards, elder_before, changes, deck_frame>>

NextDeck ==
    \/ ContentExpanded \/ ContentPanics
    \/ FirstEntryFails \/ FirstEntry
    \/ NextEntryFails \/ NextEntry
    \/ ReturnDeck

SpecDeck == InitDeck /\ [][NextDeck]_vars


(***************************************************************************)
(* The content of a field line (parse.rs, flash): the elements the grammar *)
(* collected are folded into `merged`, adjacent texts through the buffer   *)
(* `current_text`.                                                         *)
(***************************************************************************)
\* `if !current_text.is_empty() { merged.push(Text(..)) }` pushing the buffer
\* whether or not it is empty
FlushAlways(into, text) == Append(into, Text(text))

\* `if !current_text.is_empty() { merged.push(TextElement::Text(..)) }`
Flush(into, text) == IF text # <<>> THEN Append(into, Text(text)) ELSE into

\* the elements content_element yields: content_text maps one token, never
\* empty, to a Text; cloze yields a Cloze with id 0 and an optional hint
Str_Space == <<32>>
ContentElements ==
    { Text(Str_a), Text(Str_Space), ClozeEl(0, Str_c, <<>>), ClozeEl(0, Str_a, Str_t) }

InitMerge ==
    /\ pc = "merge"
    /\ elements \in SeqsUpTo(ContentElements, MaxElements)
    /\ unmerged = elements
    /\ merged = <<>>
    /\ current_text = <<>>
    /\ first_commit = [author |-> Str_a, time |-> 7]
    /\ WalkRests
    /\ BesideMergeRests

\* the arm TextElement::Text(t): current_text.push_str(&t)
TextArm ==
    /\ pc = "merge" /\ unmerged # <<>>
    /\ Head(unmerged).kind = "Text"
    /\ current_text' = current_text \o Head(unmerged).text
    /\ unmerged' = Tail(unmerged)
    /\ UNCHANGED <<pc, elements, merged, walk_vars, beside_merge>>

\* the arm `other`: the buffer is flushed and taken, the cloze pushed
OtherArm ==
    /\ pc = "merge" /\ unmerged # <<>>
    /\ Head(unmerged).kind # "Text"
    /\ merged' = Append(Flush(merged, current_text), Head(unmerged))
    /\ current_text' = <<>>
    /\ unmerged' = Tail(unmerged)
    /\ UNCHANGED <<pc, elements, walk_vars, beside_merge>>

\* after the loop: the buffer is flushed and `merged` is the content
LastFlush ==
    /\ pc = "merge" /\ unmerged = <<>>
    /\ merged' = Flush(merged, current_text)
    /\ pc' = "merged"
    /\ UNCHANGED <<elements, unmerged, current_text, walk_vars, beside_merge>>

NextMerge == TextArm \/ OtherArm \/ LastFlush

SpecMerge == InitMerge /\ [][NextMerge]_vars


(***************************************************************************)
(* Properties.                                                             *)
(***************************************************************************)
\* the 1-based position of a note occurring exactly once in a revision
Once(rev, note) == Cardinality({i \in 1..Len(rev) : rev[i] = note}) = 1
PlaceOf(rev, note) == CHOOSE i \in 1..Len(rev) : rev[i] = note

\* a step of the walk has just been taken over a history of single-class pairs
WalkStepTaken == pc \in {"loop", "done"} /\ n_revs >= 2 /\ one_class

\* C1: identity persistence across the history walk.  In a history whose
\* consecutive revisions differ by one change class, after every step each
\* note present unchanged in the older and the newer revision sits, in the
\* substrate after the step, on the id that sat at its place before the step.
C1_IdentityPersists ==
    WalkStepTaken =>
        \A note \in Elems(preceding_cards) \cap Elems(cards_of_the_day) :
            (Once(preceding_cards, note) /\ Once(cards_of_the_day, note)) =>
                LET before == PlaceOf(preceding_cards, note)
                    after == PlaceOf(cards_of_the_day, note)
                IN  /\ before <= Len(elder_before)
                    /\ after <= Len(elder_cards)
                    /\ elder_cards[after].id = elder_before[before].id

\* C2: identifier uniqueness.  Along the fixed-host fold over revisions of
\* pairwise distinct content strings, no two entries of the substrate carry
\* the same id.
C2_IdsUnique ==
    pc = "fold" =>
        \A i, j \in 1..Len(elder_cards) : i # j => elder_cards[i].id # elder_cards[j].id

\* a drawn Modifications list was applied, or would index out of bounds
ModificationsCalled == pc \in {"returned", "call_panic"} /\ changes.kind = "Modifications"
IndicesInRange == \A k \in 1..Len(changes.list) : changes.list[k][1] < Len(elder_before)
ListedIndices == { changes.list[k][1] : k \in 1..Len(changes.list) }
\* the last entry of the list that names index i
LastListing(i) ==
    CHOOSE k \in 1..Len(changes.list) :
        /\ changes.list[k][1] = i
        /\ \A m \in (k + 1)..Len(changes.list) : changes.list[m][1] # i

\* C3 as stated: after resolve_changes on an in-range Modifications list every
\* listed (i, note) has substrate[i].id unchanged and substrate[i].inner = note,
\* the length is unchanged and every entry not listed is unchanged.
C3_EveryListedNoteStands ==
    (ModificationsCalled /\ IndicesInRange) =>
        /\ pc = "returned"
        /\ Len(elder_cards) = Len(elder_before)
        /\ \A k \in 1..Len(changes.list) :
              /\ elder_cards[changes.list[k][1] + 1].id = elder_before[changes.list[k][1] + 1].id
              /\ elder_cards[changes.list[k][1] + 1].inner = changes.list[k][2]
        /\ \A i \in 0..(Len(elder_before) - 1) :
              i \notin ListedIndices => elder_cards[i + 1] = elder_before[i + 1]

\* C3, amended: after resolve_changes on an in-range Modifications list every
\* listed index i has substrate[i].id unchanged and substrate[i].inner equal
\* to the note of the last entry listing i, the length is unchanged and every
\* entry not listed is unchanged.
C3_ModificationKeepsId ==
    (ModificationsCalled /\ IndicesInRange) =>
        /\ pc = "returned"
        /\ Len(elder_cards) = Len(elder_before)
        /\ \A i \in ListedIndices :
              /\ elder_cards[i + 1].id = elder_before[i + 1].id
              /\ elder_cards[i + 1].inner = changes.list[LastListing(i)][2]
        /\ \A i \in 0..(Len(elder_before) - 1) :
              i \notin ListedIndices => elder_cards[i + 1] = elder_before[i + 1]

\* a two-entry Modifications list was applied and changed the notes of two
\* entries of the substrate, neither of them the first
C3_Witness ==
    /\ pc = "returned"
    /\ changes.kind = "Modifications"
    /\ Len(changes.list) = 2
    /\ changes.list[1][1] # changes.list[2][1]
    /\ \A i \in ListedIndices : i > 0 /\ elder_cards[i + 1].inner # elder_before[i + 1].inner

\* a call of resolve_changes returned
CallReturned == pc \in {"returned", "resolved"} /\ changes.kind # "None"
AddedIds ==
    [k \in 1..Len(changes.list) |->
        GenerateNoteUuid(HostUuid, ToContentString(changes.list[k][2]))]

\* C4: ids are re-issued only on additions.  After Deletions, Modifications
\* or Reorders the multiset of ids is contained in the multiset before; after
\* Additions the substrate has one more entry per listed addition, its ids
\* are the ids before plus one generated id per addition, and the entries
\* that were there before are all there, unchanged and in the same order.
C4_IdsIssuedOnlyByAdditions ==
    CallReturned =>
        IF changes.kind = "Additions"
        THEN /\ Len(elder_cards) = Len(elder_before) + Len(changes.list)
             /\ BagOf(Ids(elder_cards)) = BagOf(Ids(elder_before)) (+) BagOf(AddedIds)
             /\ IsSubseq(elder_before, elder_cards)
        ELSE BagOf(Ids(elder_cards)) \sqsubseteq BagOf(Ids(elder_before))

\* two additions were inserted into a substrate of two entries, one of them
\* ahead of an entry that was there before
C4_Witness ==
    /\ pc = "returned"
    /\ changes.kind = "Additions"
    /\ Len(changes.list) = 2
    /\ Len(elder_before) = 2
    /\ elder_cards[Len(elder_cards)] = elder_before[2]
    /\ elder_cards[1] # elder_before[1]

\* determine_changes has answered for the drawn pair (old, new)
Classified == pc \in {"resolve", "resolved", "panic"}
\* resolve_changes has been called on that answer
Resolved == pc \in {"resolved", "panic"}

C6_AdditionRoundTrip ==
    (Resolved /\ PureAddition(bygone_cards, cards_of_the_day)) =>
        /\ pc = "resolved"
        /\ changes.kind = "Additions"
        /\ Inner(elder_cards) = cards_of_the_day
        /\ (bygone_cards = <<NoteA, NoteB>> /\ cards_of_the_day = <<NoteA, NoteC, NoteB>>)
              => changes = Additions(<< <<1, NoteC>> >>)

\* two notes were inserted into a deck of one note, one on each side of it
C6_Witness ==
    /\ pc = "resolved"
    /\ PureAddition(bygone_cards, cards_of_the_day)
    /\ Len(bygone_cards) = 1
    /\ Len(cards_of_the_day) = 3
    /\ cards_of_the_day[2] = bygone_cards[1]
    /\ Inner(elder_cards) = cards_of_the_day

\* C7: deletion commutativity.  When new is a proper subsequence of old, the
\* answer is Deletions and applying it to a substrate holding old returns a
\* substrate holding new, position by position, whose entries are entries of
\* the substrate before, ids included, in their order.
C7_DeletionRoundTrip ==
    (Resolved /\ PureDeletion(bygone_cards, cards_of_the_day)) =>
        /\ pc = "resolved"
        /\ changes.kind = "Deletions"
        /\ Inner(elder_cards) = cards_of_the_day
        /\ IsSubseq(elder_cards, elder_before)

\* two notes were deleted from a deck of three, the middle one survives
C7_Witness ==
    /\ pc = "resolved"
    /\ PureDeletion(bygone_cards, cards_of_the_day)
    /\ Len(bygone_cards) = 3
    /\ cards_of_the_day = <<bygone_cards[2]>>
    /\ bygone_cards[1] # bygone_cards[2]
    /\ bygone_cards[3] # bygone_cards[2]
    /\ elder_cards = <<elder_before[2]>>

\* C8: reorder correctness.  When new is a permutation of old other than old,
\* applying the Reorders answer to a substrate holding old returns a
\* substrate with the same multiset of ids whose notes are new, position by
\* position.
C8_ReorderCorrect ==
    (Resolved /\ PureReorder(bygone_cards, cards_of_the_day)) =>
        /\ pc = "resolved"
        /\ BagOf(Ids(elder_cards)) = BagOf(Ids(elder_before))
        /\ Inner(elder_cards) = cards_of_the_day

\* C9: run determinism.  Two runs of the walk over one history return the
\* same sequence of (id, note) entries.
C9_RunsAgree == pc = "done" => elder_cards = rerun_cards

\* the host uuid of the oldest revision of the history
FirstHostUuid == CreateHostUuid(first_commit.author, first_commit.time)

\* C10: every id of the emitted substrate is derived from the host uuid of
\* the oldest revision: it is generate_note_uuid(H, content_string(note)) for
\* a note of the history.
C10_IdsFromFirstHost ==
    pc = "done" =>
        \A i \in 1..Len(elder_cards) :
            \E note \in WalkNotes :
                elder_cards[i].id = GenerateNoteUuid(FirstHostUuid, ToContentString(note))

\* the two notes have the same ordered field names and, element by element,
\* the same projections
SameProjection(x, y) ==
    /\ Len(x.fields) = Len(y.fields)
    /\ \A i \in 1..Len(x.fields) :
          /\ x.fields[i].name = y.fields[i].name
          /\ Len(x.fields[i].content) = Len(y.fields[i].content)
          /\ \A j \in 1..Len(x.fields[i].content) :
                x.fields[i].content[j].text = y.fields[i].content[j].text

\* some element of the two notes differs in its cloze id and in its hint
CosmeticsDiffer(x, y) ==
    /\ x.tags # y.tags
    /\ \E i \in 1..Len(x.fields) : \E j \in 1..Len(x.fields[i].content) :
          /\ x.fields[i].content[j].id # y.fields[i].content[j].id
          /\ x.fields[i].content[j].hint # y.fields[i].content[j].hint

\* C11: two notes with the same ordered field names and the same per-element
\* projections have the same content string, and the entries the Additions
\* arm builds for them under one host uuid carry the same id, whatever the
\* notes' tags, cloze ids and cloze hints are.
C11_CosmeticsIgnored ==
    pc = "identified" /\ SameProjection(twin_notes[1], twin_notes[2]) =>
        /\ ToContentString(twin_notes[1]) = ToContentString(twin_notes[2])
        /\ twin_entries[1].id = twin_entries[2].id
        /\ twin_entries[1].id = GenerateNoteUuid(HostUuid, ToContentString(twin_notes[2]))

\* two notes of the same projections differing in tags, cloze id and hint
\* were identified alike
C11_Witness ==
    /\ pc = "identified"
    /\ SameProjection(twin_notes[1], twin_notes[2])
    /\ CosmeticsDiffer(twin_notes[1], twin_notes[2])
    /\ twin_entries[1].inner # twin_entries[2].inner
    /\ twin_entries[1].id = twin_entries[2].id


RECURSIVE Ancestors(_, _)
\* the commits reachable from a commit, itself included
Ancestors(r, c) ==
    {c} \cup UNION { Ancestors(r, r.parents[c][i]) : i \in 1..Len(r.parents[c]) }

\* the commit holds the target blob and has no parents, or every parent
\* lacks the blob or holds another oid
ChangedFromEveryParent(r, c) ==
    /\ r.blob[c] # Absent
    /\ \A i \in 1..Len(r.parents[c]) :
          r.blob[r.parents[c][i]] = Absent \/ r.blob[r.parents[c][i]] # r.blob[c]

HistoryReturned == pc \in {"history", "history_error"}

\* C12: the history get_file_history ends with holds, each once, exactly the
\* commits reachable from HEAD that hold the target blob and have no parents
\* or differ at the target from every one of their parents; a merge commit
\* whose blob is the blob of one of its parents is not in it.
C12_HistorySelection ==
    HistoryReturned =>
        /\ Elems(history) = { c \in Ancestors(repo, repo.head) : ChangedFromEveryParent(repo, c) }
        /\ \A i, j \in 1..Len(history) : i # j => history[i] # history[j]


RECURSIVE FieldGroups(_, _, _)
\* the runs of field lines between blank lines, each as a list of NoteFields
FieldGroups(lines, pending, done) ==
    IF lines = <<>> THEN (IF pending = <<>> THEN done ELSE Append(done, pending))
    ELSE IF Head(lines).kind = "BlankLine"
         THEN FieldGroups(Tail(lines), <<>>,
                          IF pending = <<>> THEN done ELSE Append(done, pending))
         ELSE FieldGroups(Tail(lines),
                          Append(pending, NoteField(Head(lines).name, Head(lines).content)),
                          done)

\* the header of the known model Basic, then field lines of Basic and blank lines
GroupedContent(lines) ==
    /\ lines # <<>>
    /\ Head(lines) = ItemNoteModel(Str_Basic)
    /\ \A i \in 2..Len(lines) : lines[i] \in {FieldFront, FieldBack, ItemBlankLine}

NotesOfGroups(lines) ==
    LET groups == FieldGroups(Tail(lines), <<>>, <<>>)
    IN  [k \in 1..Len(groups) |-> Note(groups[k], Str_Basic, <<>>)]

\* C13: a known model header followed by k groups of valid field lines
\* separated by blank lines parses to exactly k notes, the k-th holding the
\* fields of the k-th group in order and nothing else.
C13_BlankLineEndsNote ==
    pc = "parse_ok" /\ GroupedContent(source) => parsed = Some(NotesOfGroups(source))

\* the fields the model of a note declares
DeclaredFields(note) ==
    LET found == FindModel(note.model)
    IN  IF found = None THEN {} ELSE Elems(found[1].fields)

\* C14: every field of every note the parser returns is named as a field the
\* note's model declares.
C14_FieldsBelongToModel ==
    pc = "parse_ok" =>
        \A k \in 1..Len(parsed[1]) : \A i \in 1..Len(parsed[1][k].fields) :
            parsed[1][k].fields[i].name \in DeclaredFields(parsed[1][k])

\* the header of Basic, `alias Front to Q`, then field lines, one at least
\* labelled Q
AliasedContent(lines) ==
    /\ Len(lines) >= 3
    /\ lines[1] = ItemNoteModel(Str_Basic)
    /\ lines[2] = ItemAlias(Str_Front, Str_Q)
    /\ \A i \in 3..Len(lines) : lines[i] \in {FieldFront, FieldBack, FieldQ}
    /\ \E i \in 3..Len(lines) : lines[i] = FieldQ

\* the same content with the label Front written where the alias Q stood
DirectContent(lines) ==
    [i \in 1..Len(lines) |-> IF lines[i] = FieldQ THEN FieldFront ELSE lines[i]]

\* C15: after `alias Front to Q` under a model declaring Front, a field line
\* labelled Q is returned as a NoteField named Front: the notes are those of
\* the content that writes the label Front directly.
C15_AliasCanonical ==
    pc = "parse_ok" /\ AliasedContent(source) =>
        /\ parsed = Flash(DirectContent(source)).output
        /\ \A k \in 1..Len(parsed[1]) : \A i \in 1..Len(parsed[1][k].fields) :
              parsed[1][k].fields[i].name # Str_Q

\* the lines of a content that are items
WellFormedLines(lines) == SelectSeq(lines, LAMBDA line : line # Malformed)

\* a content with a malformed line whose other lines parse to notes without
\* any error
MalformedAmongNotes(lines) ==
    /\ ~Accepted(lines)
    /\ Flash(WellFormedLines(lines)).errs = <<>>
    /\ Flash(WellFormedLines(lines)).output # Some(<<>>)

\* C16: a malformed line does not abort the parse: the parser goes on at the
\* next line, and the notes of the lines before and after it are produced
\* together with a diagnostic.
C16_ErrorRecovery ==
    pc \in {"flashed", "parse_ok", "parse_error"} /\ MalformedAmongNotes(source) =>
        /\ parsed = Flash(WellFormedLines(source)).output
        /\ diagnostics # <<>>


\* the entries of the last call of expand
Entries == expansion.result.log

\* C18: expand refuses to enter a file, with the circular-import error, if
\* and only if the file is on the chain of files under expansion at that
\* moment; a file entered again outside its own expansion (the shared leaf
\* of a diamond) is expanded each time.
C18_CycleDetectionFollowsChain ==
    expansion # <<>> =>
        /\ \A i \in 1..Len(Entries) :
              Entries[i].refused <=> Entries[i].file \in Elems(Entries[i].chain)
        /\ expansion.result.err = "Circular import detected" <=>
              \E i \in 1..Len(Entries) : Entries[i].file \in Elems(Entries[i].chain)


\* what a new expander returns for a file
ExpansionOf(fs, path) == ExpandFile(fs, [visited |-> {}, log |-> <<>>], path).out

\* the last call returned Ok
Expanded == expansion # <<>> /\ expansion.result.ok

\* the lines of the content the last call was given
RootLines == TextLines(files[expansion.root])

RECURSIVE Inlined(_, _)
\* the pieces of the lines in order: a non-import line and a newline, the
\* expansion of an imported file and one newline unless the expansion ends
\* with a blank line
Inlined(fs, lines) ==
    IF lines = <<>> THEN <<>>
    ELSE LET line == Head(lines)
             block == ExpansionOf(fs, Head(line).path)
         IN  (IF IsImportLine(line)
              THEN block \o (IF EndsWithBlankLine(block) THEN <<>> ELSE <<Newline>>)
              ELSE line \o <<Newline>>)
             \o Inlined(fs, Tail(lines))

\* C19 (amended): the output of expand is the concatenation, in line order,
\* of every non-import line followed by a newline and, in place of each
\* import line, the expansion of the imported file followed by one newline
\* unless that expansion already ends with two newlines; a content without
\* import lines comes back with the same lines.
C19_Inlining ==
    Expanded =>
        /\ expansion.result.out = Inlined(files, RootLines)
        /\ (\A i \in 1..Len(RootLines) : ~IsImportLine(RootLines[i])) =>
              TextLines(expansion.result.out) = RootLines

\* an import of a file whose expansion ends with a blank line was inlined,
\* with more lines after it
C19_Witness ==
    /\ Expanded
    /\ \E i \in 1..Len(RootLines) :
          /\ IsImportLine(RootLines[i])
          /\ EndsWithBlankLine(ExpansionOf(files, Head(RootLines[i]).path))
    /\ \E i \in 1..Len(RootLines) : ~IsImportLine(RootLines[i])

RECURSIVE FollowsLines(_, _, _)
\* out is, piece by piece, the lines: a non-import line and a newline, the
\* expansion of an imported file and one newline or more
FollowsLines(fs, out, lines) ==
    IF lines = <<>> THEN out = <<>>
    ELSE LET line == Head(lines)
             piece == IF IsImportLine(line)
                      THEN ExpansionOf(fs, Head(line).path) \o <<Newline>>
                      ELSE line \o <<Newline>>
             rest == SubSeq(out, Len(piece) + 1, Len(out))
         IN  /\ Len(out) >= Len(piece)
             /\ SubSeq(out, 1, Len(piece)) = piece
             /\ IF IsImportLine(line)
                THEN \E k \in 0..Len(rest) :
                        /\ \A i \in 1..k : rest[i] = Newline
                        /\ FollowsLines(fs, SubSeq(rest, k + 1, Len(rest)), Tail(lines))
                ELSE FollowsLines(fs, rest, Tail(lines))

\* C19 as stated: in place of each import line stands the expansion of the
\* imported file followed by at least one newline.
C19_AtLeastOneNewline == Expanded => FollowsLines(files, expansion.result.out, RootLines)


\* the parse of a text ends with a diagnostic or a syntax error
HasDiagnostic(text) == Flash(ItemsOf(text)).errs # <<>>

\* C17: once process_card_history has parsed a revision whose parse gives a
\* diagnostic (UnknownModel, UnknownField, InvalidAliasTarget,
\* ModelNotSpecified) or a syntax error, be it the expanded content of an
\* entry or the blob of the first entry parsed for the initial ids, it has
\* returned a Parse error and no substrate, whatever notes the revisions hold.
C17_DiagnosticsFatal ==
    \/ \E i \in 1..n_revs : HasDiagnostic(contents[i])
    \/ n_revs >= 1 /\ HasDiagnostic(blobs[1])
    => pc = "deck_error"

\* the walk stopped at a later revision whose parse gave a diagnostic and a
\* note, with a substrate built from the revisions before
C17_Witness ==
    /\ pc = "deck_error"
    /\ n_revs >= 2
    /\ Flash(ItemsOf(contents[n_revs])).errs = <<"InvalidAliasTarget">>
    /\ Flash(ItemsOf(contents[n_revs])).output \notin {None, Some(<<>>)}
    /\ elder_cards # <<>>

\* C20: when the blob of a revision holds a circular import or an import
\* that cannot be read or resolved, Deck::from does not panic and emits no
\* substrate: it stops at collecting the contents or has returned an error.
C20_ImportFailuresReturned ==
    (\E i \in 1..Len(blobs) :
        ExpandBlob(files, blobs[i]).err \in {"Circular import detected", "Cannot read import"}) =>
        pc \in {"collect", "deck_error"}


\* a cycle of the walk has run: determine_changes was handed an old deck
CycleRun == pc \in {"loop", "panic", "done"} /\ n_revs >= 2

\* C21: for every revision after the first, the second included, the old
\* sequence process_card_history hands to determine_changes is the note
\* sequence of the immediately preceding revision (the new sequence being
\* the notes of the current revision, from which the Transforms are built).
C21_OldIsPrecedingRevision ==
    CycleRun =>
        /\ last_cards = preceding_cards
        /\ changes = DetermineChanges(preceding_cards, cards_of_the_day)

\* the walk has returned over a history whose consecutive revisions each
\* differ by a single change class
WalkedOneClass == pc = "done" /\ n_revs >= 1 /\ one_class

\* C22: the emitted substrate mirrors the newest revision.  After a walk over
\* a history of single-class steps, the inner notes of the returned substrate
\* are the notes of the newest revision: same length, same notes, same order.
C22_SubstrateMirrorsNewest ==
    WalkedOneClass => Inner(elder_cards) = cards_of_the_day

\* the notes of the deck are pairwise distinct
DistinctNotes(deck) == \A i, j \in 1..Len(deck) : i # j => deck[i] # deck[j]

\* determine_changes has answered Reorders for a permutation of distinct notes
ReordersFound ==
    /\ Classified
    /\ changes.kind = "Reorders"
    /\ DistinctNotes(last_cards)

\* C23: the Reorders set determine_changes returns for a permutation of
\* pairwise distinct notes consists of pairwise disjoint transpositions: each
\* pair (a, b) has a < b and no index occurs in two different pairs.
C23_ReordersDisjoint ==
    ReordersFound =>
        \A p \in changes.pairs :
            /\ p[1] < p[2]
            /\ \A q \in changes.pairs : q # p => {p[1], p[2]} \cap {q[1], q[2]} = {}

\* determine_changes was handed decks of different lengths
LengthsDiffer == Len(last_cards) # Len(cards_of_the_day)

\* the indices of an Additions list, and whether a list of indices ascends
\* or descends strictly
AddedIndices == [k \in 1..Len(changes.list) |-> changes.list[k][1]]
StrictlyIncreasing(s) == \A k \in 1..(Len(s) - 1) : s[k] < s[k + 1]
StrictlyDecreasing(s) == \A k \in 1..(Len(s) - 1) : s[k] > s[k + 1]

\* C24: indices stay valid under sequential application.  For old and new of
\* different lengths, pure edit or not, an Additions list has strictly
\* increasing indices, a Deletions list strictly decreasing ones, and
\* resolve_changes applied to a substrate of length |old| goes through the
\* list without an insert past the end or a remove outside the substrate
\* (either of which panics).
C24_IndicesStayValid ==
    (Classified /\ LengthsDiffer) =>
        /\ changes.kind \in {"Additions", "Deletions"}
        /\ changes.kind = "Additions" => StrictlyIncreasing(AddedIndices)
        /\ changes.kind = "Deletions" => StrictlyDecreasing(changes.list)
        /\ pc # "panic"
        /\ pc = "resolved" =>
              Len(elder_cards) =
                  IF changes.kind = "Additions"
                  THEN Len(elder_before) + Len(changes.list)
                  ELSE Len(elder_before) - Len(changes.list)

\* a deck that grew by an edit that is no pure addition was classified and
\* its two or more additions applied to a substrate of the old length
C24_Witness ==
    /\ pc = "resolved"
    /\ changes.kind = "Additions"
    /\ Len(changes.list) >= 2
    /\ ~PureAddition(last_cards, cards_of_the_day)
    /\ Len(elder_before) = Len(last_cards)
    /\ Len(last_cards) >= 1

RECURSIVE ModelGroups(_, _)
\* the fields of the lines grouped by the model header they were written
\* under, in order: a model name and the contents of its fields
ModelGroups(lines, done) ==
    IF lines = <<>> THEN done
    ELSE LET item == Head(lines)
         IN  IF item.kind = "NoteModel"
             THEN ModelGroups(Tail(lines), Append(done, [model |-> item.name, fields |-> <<>>]))
             ELSE IF item.kind = "Field" /\ done # <<>>
                  THEN ModelGroups(Tail(lines),
                           [done EXCEPT ![Len(done)].fields = Append(@, item.content)])
                  ELSE ModelGroups(Tail(lines), done)

\* the header groups that hold fields
FilledGroups(lines) == SelectSeq(ModelGroups(lines, <<>>), LAMBDA g : g.fields # <<>>)

\* the contents of the fields of a note, in order
FieldContents(note) == [k \in 1..Len(note.fields) |-> note.fields[k].content]

\* a content without blank lines was parsed without a diagnostic
ParsedUnbroken ==
    /\ pc = "parse_ok"
    /\ \A i \in 1..Len(source) : source[i].kind # "BlankLine"

\* C25: a model header finalizes the pending note before switching.  The
\* fields written under a header are emitted as a note of that header's
\* model, the fields under the next header as a separate note of its model:
\* one note per header with fields, none holding fields of two headers.
C25_HeaderFinalizes ==
    ParsedUnbroken =>
        LET groups == FilledGroups(source)
            notes == parsed[1]
        IN  /\ Len(notes) = Len(groups)
            /\ \A i \in 1..Len(groups) :
                  /\ notes[i].model = groups[i].model
                  /\ FieldContents(notes[i]) = groups[i].fields

\* the items the fold has consumed so far
Consumed == SubSeq(source, 1, Len(source) - Len(items))

\* the place of the most recent model header among the lines, 0 without one
LastHeader(lines) ==
    LET heads == { i \in 1..Len(lines) : lines[i].kind = "NoteModel" }
    IN  IF heads = {} THEN 0 ELSE CHOOSE i \in heads : \A j \in heads : j <= i

\* the aliases declared since the most recent model header, that header
\* naming a known model and `from` being one of its fields: entries <<to, from>>
AliasesInForce(lines) ==
    LET head == LastHeader(lines)
        model == IF head = 0 THEN None ELSE FindModel(lines[head].name)
    IN  IF model = None THEN {}
        ELSE { <<lines[i].to, lines[i].from>> :
                 i \in { k \in (head + 1)..Len(lines) :
                           /\ lines[k].kind = "Alias"
                           /\ FieldExistsInModel(model[1], lines[k].from) } }

\* the fold of the builder is under way on an accepted content
Folding == pc = "validate"

\* C26: alias table invariant.  At every point of the builder fold the alias
\* table holds only aliases declared since the most recent model header,
\* each declared under a known model with its `from` a field of that model;
\* an alias registered under one model is gone after the next model header.
C26_AliasTable ==
    Folding => builder.aliases \subseteq AliasesInForce(Consumed)

\* the tag list of the most recent tags declaration among the lines, empty
\* without one
LastTags(lines) ==
    LET decls == { i \in 1..Len(lines) : lines[i].kind = "Tags" }
    IN  IF decls = {} THEN <<>>
        ELSE lines[CHOOSE i \in decls : \A j \in decls : j <= i].tags

\* a content of one note was parsed: one model header, first, and no blank line
ParsedOneNote ==
    /\ ParsedUnbroken
    /\ { i \in 1..Len(source) : source[i].kind = "NoteModel" } = {1}
    /\ Len(parsed[1]) = 1

\* C27: the tags of an emitted note are the tag list of the most recent tags
\* declaration seen for that note, empty if there was none: a second
\* declaration replaces the first.
C27_LastTagsDecl ==
    ParsedOneNote => parsed[1][1].tags = LastTags(source)

RECURSIVE TextOf(_)
\* the concatenation of the Text strings of a content
TextOf(content) ==
    IF content = <<>> THEN <<>>
    ELSE (IF Head(content).kind = "Text" THEN Head(content).text ELSE <<>>)
         \o TextOf(Tail(content))

\* the Cloze elements of a content, in order
ClozesOf(content) == SelectSeq(content, LAMBDA el : el.kind = "Cloze")

\* C28: content coalescing.  The content of the resulting NoteField holds no
\* two adjacent Text elements and no empty Text element; the concatenation of
\* its Text strings and the order of its Cloze elements are those of the
\* uncoalesced sequence.
C28_ContentCoalesced ==
    pc = "merged" =>
        /\ \A k \in 1..(Len(merged) - 1) :
              ~(merged[k].kind = "Text" /\ merged[k + 1].kind = "Text")
        /\ \A k \in 1..Len(merged) : merged[k].kind = "Text" => merged[k].text # <<>>
        /\ TextOf(merged) = TextOf(elements)
        /\ ClozesOf(merged) = ClozesOf(elements)

\* a line with two adjacent texts after a leading cloze and another cloze
\* behind them was coalesced
C28_Witness ==
    /\ pc = "merged"
    /\ Len(elements) = 4
    /\ elements[1].kind = "Cloze"
    /\ elements[2].kind = "Text" /\ elements[3].kind = "Text"
    /\ elements[4].kind = "Cloze"
    /\ Len(merged) = 3

\* the first entry of the history has been processed, its expanded content
\* being a text the parser accepts without a diagnostic
FirstEntryDone ==
    /\ pc \in {"walk", "deck", "deck_error"}
    /\ n_revs = 1
    /\ FirstCards.ok

\* the blob of the first revision holds an import line
FirstBlobImports ==
    \E i \in 1..Len(TextLines(blobs[1])) : IsImportLine(TextLines(blobs[1])[i])

\* C29: imports are expanded before every parse of a revision, the parse
\* that computes the initial ids included: a first revision loads whenever
\* its expanded text parses, with or without an import line, and the initial
\* substrate has one entry per note of the expanded text, in order, each
\* with the id derived from that note.
C29_ExpandedBeforeEveryParse ==
    FirstEntryDone =>
        /\ pc # "deck_error"
        /\ Len(elder_cards) = Len(FirstCards.value)
        /\ \A i \in 1..Len(elder_cards) :
              elder_cards[i] =
                  Identified(GenerateNoteUuid(FirstHostUuid,
                                              ToContentString(FirstCards.value[i])),
                             FirstCards.value[i])

\* a call on the expander has returned
ExpandReturned == pc = "expander" /\ calls >= 1 /\ expansion # <<>>

\* C30: the expansion stack is restored by every call.  After expand
\* returns, with Ok or with an error (circular import, unreadable import,
\* unresolvable path, at any depth), the visited set is the set that held
\* before the call.
C30_VisitedRestored ==
    ExpandReturned => visited = expansion.before

=============================================================================
